---- MODULE Spec2Model ----
(***************************************************************************)
(* A model of rpkimancer's certificate authority, signed-object and        *)
(* publication code (src/rpkimancer/cert/*.py, src/rpkimancer/sigobj/*.py).*)
(*                                                                         *)
(* Certificates are numbered 1..Len(certs) in order of construction; the   *)
(* RSA key generated for a certificate is identified by that number, so    *)
(* every certificate has a key of its own.  DER encodings are identified   *)
(* by what they encode (Bytes), and a digest by the value it was taken of. *)
(***************************************************************************)
EXTENDS Integers, Sequences, FiniteSets, TLC

\* ---------------------------------------------------------------- bounds
\* The number of certificates and CRLs issued, over all CAs.
MaxIssued == 4

\* ------------------------------------------------------- values and names
Optional(x) == <<x>>
None == <<>>

EmptyContent ==
    [asID |-> 0, ipAddrBlocks |-> <<>>, vcard |-> "", manifestNumber |-> 0,
     fileList |-> <<>>]

\* EncapsulatedContentType.digest: the SHA-256 of the DER eContent.
digest(econtent) == [alg |-> "sha256", of |-> econtent]

\* cms.SignedAttributes: two attributes, contentType and messageDigest.
SignedAttributes(content_type, message_digest) ==
    [contentType |-> content_type, messageDigest |-> message_digest]

NoDigest == SignedAttributes("", digest(EmptyContent))

\* A common name: a plain string, or the hex digest of a signedAttrs value.
PlainCn(s) == [s |-> s, d |-> NoDigest]

\* One component of a path: "<stem>" or "<stem>.<ext>".
PathName(stem, ext) == [s |-> stem.s, d |-> stem.d, ext |-> ext]
PlainName(s) == PathName(PlainCn(s), "")

\* os.path.basename
basename(path) == path[Len(path)]
dirname(path) == SubSeq(path, 1, Len(path) - 1)

IsPrefix(p, q) == Len(p) <= Len(q) /\ SubSeq(q, 1, Len(p)) = p

\* DER encodings: of the certificate with number id, of CRL number n of the
\* CA with number id, of the signed object whose EE certificate has number id.
cert_bytes(id) == [type |-> "cer", id |-> id, n |-> 0]
crl_bytes(id, n) == [type |-> "crl", id |-> id, n |-> n]
object_bytes(id) == [type |-> "obj", id |-> id, n |-> 0]

SHA256(bytes) == [alg |-> "sha256", of |-> bytes]

\* ------------------------------------------------------------------ URIs
DEFAULT_BASE_URI ==
    [scheme |-> "rsync", host |-> "rpki.example.net",
     path |-> <<PlainName("rpki")>>]
OTHER_BASE_URI ==
    [scheme |-> "rsync", host |-> "rpki.example.org",
     path |-> <<PlainName("repo")>>]
BaseUris == {DEFAULT_BASE_URI, OTHER_BASE_URI}

\* f"{base_uri}/{path}"
UriJoin(base, path) == [base EXCEPT !.path = @ \o path]
UriStartsWith(uri, base) ==
    /\ uri.scheme = base.scheme
    /\ uri.host = base.host
    /\ IsPrefix(base.path, uri.path)
\* The file below pub_path that a URI of the repository names.
UriFile(uri) == <<PlainName(uri.host)>> \o uri.path

\* ------------------------------------------------------------- resources
\* An ipaddress network is its family and the bits of its prefix.
\* A range of addresses is its family and the bits of its two addresses.
Net(version, bits) ==
    [kind |-> "net", version |-> version, bits |-> bits, high |-> <<>>]
IPRange(version, low, high) ==
    [kind |-> "range", version |-> version, bits |-> low, high |-> high]
INHERIT_IPV4 == [kind |-> "inherit", version |-> 4, bits |-> <<>>, high |-> <<>>]
INHERIT_IPV6 == [kind |-> "inherit", version |-> 6, bits |-> <<>>, high |-> <<>>]
INHERIT_AS == [inherit |-> TRUE, ranges |-> <<>>]
AsList(ranges) == [inherit |-> FALSE, ranges |-> ranges]
AsId(a) == [min |-> a, max |-> a]
AsRange(a, b) == [min |-> a, max |-> b]

Net6 == Net(6, <<>>)                                   \* ::/0
Net10 == Net(4, <<0, 0, 0, 0, 1, 0, 1, 0>>)            \* 10.0.0.0/8
Net10_1 == Net(4, <<0, 0, 0, 0, 1, 0, 1, 0,
                    0, 0, 0, 0, 0, 0, 0, 1>>)          \* 10.1.0.0/16
Net192 == Net(4, <<1, 1, 0, 0, 0, 0, 0, 0>>)           \* 192.0.0.0/8

TA_RESOURCES ==
    {[ip |-> Optional(<<Net10, Net6>>),
      as |-> Optional(AsList(<<AsRange(0, 65535)>>))]}
IN_RESOURCES ==
    [ip |-> Optional(<<Net10>>), as |-> Optional(AsList(<<AsId(65000)>>))]
OUT_RESOURCES ==
    [ip |-> Optional(<<Net192>>), as |-> Optional(AsList(<<AsId(70000)>>))]

\* resources.AFI: the address family identifier of an IP version.
AFI(version) == IF version = 4 THEN 1 ELSE 2

NO_RESOURCES == [ip |-> None, as |-> None]

\* ------------------------------------- the RFC 3779 extensions (resources.py)
\* ipaddress: max_prefixlen of an address, and an integer of that many bits
\* with its operations >> 1 and % 2.
max_prefixlen(version) == IF version = 4 THEN 32 ELSE 128
shr(bits) == <<0>> \o SubSeq(bits, 1, Len(bits) - 1)
mod2(bits) == bits[Len(bits)]

\* The BIT STRING (value, len): the len low bits of value.
BitString(value, len) == SubSeq(value, Len(value) - len + 1, Len(value))

\* A network is held as the bits of its prefix: network.prefixlen is their
\* number and int(network.network_address) has zero host bits after them.
prefixlen(network) == Len(network.bits)
network_address(network) ==
    network.bits
        \o [i \in 1..(max_prefixlen(network.version) - prefixlen(network)) |-> 0]

\* int >> n, and int << n within the bits of an address.
shr_n(bits, n) ==
    [i \in 1..Len(bits) |-> IF i <= n THEN 0 ELSE bits[i - n]]
shl_n(bits, n) ==
    [i \in 1..Len(bits) |-> IF i + n <= Len(bits) THEN bits[i + n] ELSE 0]

\* net_to_bitstring: (int(network.network_address) >> hostbits, netbits)
net_to_bitstring(network) ==
    LET netbits == prefixlen(network)
        hostbits == max_prefixlen(network.version) - netbits
        value == shr_n(network_address(network), hostbits)
    IN  BitString(value, netbits)

\* bitstring_to_net: the network (value << hostbits, netbits)
bitstring_to_net(bits, version) ==
    LET netbits == Len(bits)
        hostbits == max_prefixlen(version) - netbits
        value == [i \in 1..hostbits |-> 0] \o bits
    IN  Net(version, SubSeq(shl_n(value, hostbits), 1, netbits))

\* The two loops of IPAddressRange.__init__:
\*     while bits % 2 == parity: bits = bits >> 1; len = len - 1
\* The first (parity 0) does not end for the address 0.
RECURSIVE trim(_, _, _)
trim(bits, len, parity) ==
    IF mod2(bits) = parity THEN trim(shr(bits), len - 1, parity)
    ELSE [value |-> bits, len |-> len]

\* A variant of IPAddressRange.__init__ that goes on to truncate the
\* zero-bits the one-bits of the upper bound leave behind.
IPAddressRange_trim_both(ip_range) ==
    LET low == trim(ip_range.bits, max_prefixlen(ip_range.version), 0)
        high == trim(ip_range.high, max_prefixlen(ip_range.version), 1)
        more == trim(high.value, high.len, 0)
    IN  [min |-> BitString(low.value, low.len),
         max |-> BitString(more.value, more.len)]

\* IPAddressRange.__init__: content_data
IPAddressRange(ip_range) ==
    LET low == trim(ip_range.bits, max_prefixlen(ip_range.version), 0)
        high == trim(ip_range.high, max_prefixlen(ip_range.version), 1)
    IN  [min |-> BitString(low.value, low.len),
         max |-> BitString(high.value, high.len)]

\* IPAddrBlocks._net_entry, for a network, for a range and for an inherit
\* marker.  The data of an addressRange are its min (bits) and its max.
NetData(choice, bits) == [choice |-> choice, bits |-> bits, max |-> <<>>]
RangeData(content_data) ==
    [choice |-> "addressRange", bits |-> content_data.min,
     max |-> content_data.max]
net_entry(data) ==
    IF data.kind = "net"
    THEN [version |-> data.version,
          data |-> NetData("addressPrefix", net_to_bitstring(data))]
    ELSE IF data.kind = "range"
    THEN [version |-> data.version, data |-> RangeData(IPAddressRange(data))]
    ELSE [version |-> data.version, data |-> NetData("inherit", <<>>)]

\* A variant of _combine that lets the inherit marker win only when the
\* family has no other entry.
combine_all_inherit(entries) ==
    IF \A i \in 1..Len(entries) : entries[i].choice = "inherit"
    THEN [choice |-> "inherit", addressesOrRanges |-> <<>>]
    ELSE [choice |-> "addressesOrRanges", addressesOrRanges |-> entries]

\* IPAddrBlocks._combine
combine(entries) ==
    IF \E i \in 1..Len(entries) : entries[i].choice = "inherit"
    THEN [choice |-> "inherit", addressesOrRanges |-> <<>>]
    ELSE [choice |-> "addressesOrRanges", addressesOrRanges |-> entries]

\* IPAddrBlocks.__init__: one IPAddressFamily per AFI that has entries, the
\* IPv4 family first.
by_afi(entries, version) ==
    LET of == SelectSeq(entries, LAMBDA e : e.version = version)
    IN  [i \in 1..Len(of) |-> of[i].data]
ip_family(entries, version) ==
    IF by_afi(entries, version) = <<>> THEN <<>>
    ELSE <<[addressFamily |-> AFI(version),
            ipAddressChoice |-> combine(by_afi(entries, version))]>>
families(entries) == ip_family(entries, 4) \o ip_family(entries, 6)
IPAddrBlocks(ip_resources) ==
    families([i \in 1..Len(ip_resources) |-> net_entry(ip_resources[i])])

\* ASIdentifiers.__init__
ASIdentifiers(as_resources) ==
    IF as_resources.inherit
    THEN [asnum |-> [choice |-> "inherit", asIdsOrRanges |-> <<>>]]
    ELSE [asnum |-> [choice |-> "asIdsOrRanges",
                     asIdsOrRanges |-> as_resources.ranges]]

\* ----------------------------------------------------------------- state
VARIABLES
    certs,      \* the certificate objects constructed so far
    cas,        \* per certificate number: the mutable state of that CA
    crl_log,    \* per certificate number: every issue_crl call of that CA, as
                \* the serials it was asked to revoke and the CRL it issued
    files,      \* the files below pub_path: path -> bytes
    dirs,       \* the directories below pub_path
    tal_file,   \* the TAL written below tal_path, if any
    pub_log,    \* the steps of the last publish call, in order
    last        \* the last operation called

\* Beside the objects of one process, the model follows:
VARIABLES
    runs        \* two runs of the pipeline on the same inputs with the same
                \* keys: per run, the system clock and the bytes put out
VARIABLES
    rng         \* one --ta-ip-resources/--ca-ip-resources argument on its way
                \* through ip_resource and IPAddressRange into IPAddrBlocks
VARIABLES
    cli         \* one call of the command entry point: where it is, what it
                \* was given and what came of it
VARIABLES
    thr         \* threads that encode and decode: per thread the Interface
                \* class, the call and its position; the locks held; the
                \* thread whose value each template holds
VARIABLES
    blk         \* one list of IP resources on its way through IPAddrBlocks
VARIABLES
    err         \* the call that raised, if one did: which, of which CA, and
                \* the state of that CA and of all objects when it was made

objects == <<certs, cas, crl_log, files, dirs, tal_file, pub_log, last>>
side == <<runs, rng, cli, thr, blk, err>>
vars == <<objects, side>>

IsCA(cs, id) == cs[id].ca
IsTA(cs, id) == cs[id].ca /\ cs[id].issuer = 0
CAs == {id \in 1..Len(certs) : IsCA(certs, id)}

\* ------------------------------------------------- paths (cert/ca.py, ee.py)
RECURSIVE repo_path(_, _)
repo_path(cs, id) ==
    IF cs[id].issuer = 0
    THEN <<PathName(cs[id].cn, "")>>
    ELSE repo_path(cs, cs[id].issuer) \o <<PathName(cs[id].cn, "")>>

cert_path(cs, id) ==
    IF cs[id].issuer = 0
    THEN <<PathName(cs[id].cn, "cer")>>
    ELSE repo_path(cs, cs[id].issuer) \o <<PathName(cs[id].cn, "cer")>>

crl_path(cs, id) == repo_path(cs, id) \o <<PathName(PlainCn("revoked"), "crl")>>
mft_path(cs, id) == repo_path(cs, id) \o <<PathName(PlainCn("manifest"), "mft")>>

\* EncapsulatedContentType.signed_attrs
signed_attrs(ctype, econtent) == SignedAttributes(ctype, digest(econtent))

\* EncapsulatedContentType.signed_attrs_digest: the hex SHA-256 of the DER
\* signedAttrs.
signed_attrs_digest(ctype, econtent) ==
    [s |-> "", d |-> signed_attrs(ctype, econtent)]

\* EECertificate.sign_object: the signature over the DER signedAttrs made
\* with the certificate's own private key.  A variant signs with the key
\* of the issuing CA.
sign_object_issuer_key(cs, id) ==
    [key |-> cs[cs[id].issuer].key,
     message |-> signed_attrs(cs[id].ctype, cs[id].econtent)]

sign_object(cs, id) ==
    [key |-> cs[id].key,
     message |-> signed_attrs(cs[id].ctype, cs[id].econtent)]

file_ext(ctype) ==
    CASE ctype = "roa" -> "roa" [] ctype = "gbr" -> "gbr" [] ctype = "mft" -> "mft"

\* SignedObject.file_name
file_name(cert) ==
    IF cert.file_name = None
    THEN PathName(signed_attrs_digest(cert.ctype, cert.econtent),
                  file_ext(cert.ctype))
    ELSE cert.file_name[1]

object_path(cs, id) == repo_path(cs, cs[id].issuer) \o <<file_name(cs[id])>>

\* BaseResourceCertificate.uri_path
uri_path(cert) == <<PlainName(cert.base_uri.host)>> \o cert.base_uri.path

\* ------------------------------------------------------------ extensions
crldp(cs, id) == UriJoin(cs[id].base_uri, crl_path(cs, id))
aia(cs, id) == UriJoin(cs[id].base_uri, cert_path(cs, id))
ca_sia(cs, id) ==
    <<[method |-> "caRepository",
       uri |-> UriJoin(cs[id].base_uri, repo_path(cs, id))],
      [method |-> "rpkiManifest",
       uri |-> UriJoin(cs[id].base_uri, mft_path(cs, id))]>>
ee_sia(cs, id) ==
    <<[method |-> "signedObject",
       uri |-> UriJoin(cs[id].base_uri, object_path(cs, id))]>>

\* BaseResourceCertificate.CPS, and the BasicConstraints and KeyUsage
\* extensions of BaseResourceCertificate.__init__.
CPS == [policy |-> "id-cp-ipAddr-asNumber"]
BasicConstraints(ca) ==
    IF ca THEN Optional([ca |-> TRUE, path_length |-> None]) ELSE None
\* A variant in which every certificate may sign data.
KeyUsage_digital_signature(ca) ==
    [digital_signature |-> TRUE, key_cert_sign |-> ca, crl_sign |-> ca]
KeyUsage(ca) ==
    [digital_signature |-> ~ca, key_cert_sign |-> ca, crl_sign |-> ca]

\* SubjectKeyIdentifier / AuthorityKeyIdentifier: the SHA-1 of a public key.
KeyIdentifier(key) == [alg |-> "sha1", key |-> key]

\* ------------------------------------------------ the state as one value
\* The operations below are functions from state to state, so that one
\* operation can call another (a constructor calls issue_cert, publish calls
\* issue_mft and the publish of each issuee).
Cur ==
    [certs |-> certs, cas |-> cas, crl_log |-> crl_log, files |-> files,
     dirs |-> dirs, log |-> <<>>, failed |-> FALSE]

NoCaState ==
    [issued |-> <<>>, next_serial_number |-> 0, next_crl_number |-> 0,
     crl |-> None, next_mft_number |-> 0, mft |-> None]

\* ------------------------------------- CertificateAuthority.issue_cert
issue_cert(S, ca, subject) ==
    [S EXCEPT !.cas[ca].issued = Append(@, subject),
              !.cas[ca].next_serial_number = @ + 1]

\* subject.cert_builder.sign(...), crl_builder.sign(...) and
\* private_key.sign(...) return a signature or raise.
raise(S) == [S EXCEPT !.failed = TRUE]
sign(S, signs) == IF signs THEN S ELSE raise(S)

\* A variant that appends the subject before the certificate is signed.
issue_cert_append_first(S, ca, subject, signs) ==
    LET S1 == sign([S EXCEPT !.cas[ca].issued = Append(@, subject)], signs)
    IN  IF S1.failed THEN S1
        ELSE [S1 EXCEPT !.cas[ca].next_serial_number = @ + 1]

\* issue_cert from its first statement: the signature, then the list and
\* the counter.
issue_cert_signing(S, ca, subject, signs) ==
    LET S1 == sign(S, signs)
    IN  IF S1.failed THEN S1 ELSE issue_cert(S1, ca, subject)

\* -------------------------------------- CertificateAuthority.issue_crl
\* to_revoke: None or Optional(a sequence of certificate numbers).
revoked_serials(S, to_revoke) ==
    IF to_revoke = None
    THEN <<>>
    ELSE [i \in 1..Len(to_revoke[1]) |-> S.certs[to_revoke[1][i]].serial]

crl_revoked(S, ca, to_revoke) ==
    (IF S.cas[ca].crl = None THEN <<>> ELSE S.cas[ca].crl[1].revoked)
        \o revoked_serials(S, to_revoke)

\* A variant that advances next_crl_number before the CRL is built rather
\* than after it is signed.
issue_crl_increment_first(S, ca, to_revoke) ==
    LET new == [issuer |-> S.certs[ca].cn,
                aki |-> KeyIdentifier(S.certs[ca].key),
                number |-> S.cas[ca].next_crl_number + 1,
                revoked |-> crl_revoked(S, ca, to_revoke),
                signer |-> S.certs[ca].key]
    IN  [S EXCEPT !.cas[ca].crl = Optional(new),
                  !.cas[ca].next_crl_number = @ + 1,
                  !.crl_log[ca] = Append(@, [to_revoke |-> revoked_serials(S, to_revoke),
                                             crl |-> new])]

issue_crl(S, ca, to_revoke) ==
    LET new == [issuer |-> S.certs[ca].cn,
                aki |-> KeyIdentifier(S.certs[ca].key),
                number |-> S.cas[ca].next_crl_number,
                revoked |-> crl_revoked(S, ca, to_revoke),
                signer |-> S.certs[ca].key]
    IN  [S EXCEPT !.cas[ca].crl = Optional(new),
                  !.cas[ca].next_crl_number = @ + 1,
                  !.crl_log[ca] = Append(@, [to_revoke |-> revoked_serials(S, to_revoke),
                                             crl |-> new])]

\* issue_crl from its first statement: the builder, the signature, then
\* the CRL and the counter.
issue_crl_signing(S, ca, to_revoke, signs) ==
    LET S1 == sign(S, signs)
    IN  IF S1.failed THEN S1 ELSE issue_crl(S1, ca, to_revoke)

crl_der(S, ca) == crl_bytes(ca, S.cas[ca].crl[1].number)

\* ------------------------------------ BaseResourceCertificate.__init__
\* a: the constructor's arguments.  The caller has appended the new object's
\* entry of cas already (CertificateAuthority.__init__ sets _issued and
\* next_serial_number before it calls super().__init__).
BaseResourceCertificate_init(S, a) ==
    LET id == Len(S.certs) + 1
        signer == IF a.issuer = 0 THEN id ELSE a.issuer
        r0 == [ca |-> a.ca,
               issuer |-> a.issuer,
               cn |-> a.common_name,
               issuer_cn |-> IF a.issuer = 0 THEN a.common_name
                             ELSE S.certs[a.issuer].cn,
               serial |-> S.cas[signer].next_serial_number,
               key |-> id,
               given_base_uri |-> a.given_base_uri,
               base_uri |-> a.base_uri,
               ip_resources |-> a.ip_resources,
               as_resources |-> a.as_resources,
               ski |-> KeyIdentifier(id),
               aki |-> IF a.issuer = 0 THEN None
                       ELSE Optional(KeyIdentifier(S.certs[a.issuer].key)),
               crldp |-> IF a.issuer = 0 THEN None
                         ELSE Optional(crldp(S.certs, a.issuer)),
               aia |-> IF a.issuer = 0 THEN None
                       ELSE Optional(aia(S.certs, a.issuer)),
               sia |-> <<>>,
               basic_constraints |-> BasicConstraints(a.ca),
               key_usage |-> KeyUsage(a.ca),
               cps |-> CPS,
               signer |-> IF a.issuer = 0 THEN id ELSE S.certs[a.issuer].key,
               ctype |-> a.ctype,
               econtent |-> a.econtent,
               file_name |-> a.file_name,
               certificates |-> <<>>,
               sid |-> None,
               signature |-> None]
        cs0 == Append(S.certs, r0)
        r == [r0 EXCEPT !.sia = IF a.ca THEN ca_sia(cs0, id) ELSE ee_sia(cs0, id)]
    IN  issue_cert([S EXCEPT !.certs = Append(@, r)], signer, id)

NoObject == [ctype |-> "", econtent |-> EmptyContent, file_name |-> None]

\* -------------------------------------- CertificateAuthority.__init__
CertificateAuthority_init(S, issuer, common_name, base_uri, given, res) ==
    LET id == Len(S.certs) + 1
        S0 == [S EXCEPT !.cas = Append(@, [NoCaState EXCEPT
                                              !.next_serial_number = 1]),
                        !.crl_log = Append(@, <<>>)]
        S1 == BaseResourceCertificate_init(S0,
                [ca |-> TRUE, issuer |-> issuer, common_name |-> common_name,
                 base_uri |-> base_uri, given_base_uri |-> given,
                 ip_resources |-> res.ip, as_resources |-> res.as,
                 ctype |-> NoObject.ctype, econtent |-> NoObject.econtent,
                 file_name |-> NoObject.file_name])
        S2 == [S1 EXCEPT !.cas[id].next_crl_number = 0, !.cas[id].crl = None]
        S3 == issue_crl(S2, id, None)
    IN  [S3 EXCEPT !.cas[id].next_mft_number = 0]

\* ------------------------------------ TACertificateAuthority.__init__
\* base_uri is a named parameter of this constructor and is not among the
\* keyword arguments handed on, so the base class applies its default.
TACertificateAuthority_init(S, common_name, base_uri, res) ==
    CertificateAuthority_init(S, 0, common_name, DEFAULT_BASE_URI, base_uri, res)

\* ------------------------------------------------------ eContent values

\* RouteOriginAttestationContentType.__init__: ip_address_blocks is a list
\* of (network, maxlen); the entries are grouped by address family.
address_entry(block) == [address |-> block.network.bits, maxLength |-> block.maxlen]

roa_family(blocks, version) ==
    LET of == SelectSeq(blocks, LAMBDA b : b.network.version = version)
    IN  IF of = <<>> THEN <<>>
        ELSE <<[addressFamily |-> AFI(version),
                addresses |-> [i \in 1..Len(of) |-> address_entry(of[i])]]>>

RouteOriginAttestationContentType(as_id, ip_address_blocks) ==
    [EmptyContent EXCEPT
        !.asID = as_id,
        !.ipAddrBlocks = roa_family(ip_address_blocks, 4)
                            \o roa_family(ip_address_blocks, 6)]

roa_ip_resources(ip_address_blocks) ==
    [i \in 1..Len(ip_address_blocks) |-> ip_address_blocks[i].network]

RpkiGhostbustersEContent(full_name) == [EmptyContent EXCEPT !.vcard = full_name]

\* RpkiManifestContentType.__init__: file_list is a list of (name, bytes).
hash_bitstring(contents) == SHA256(contents)

RpkiManifestContentType(manifest_number, file_list) ==
    [EmptyContent EXCEPT
        !.manifestNumber = manifest_number,
        !.fileList = [i \in 1..Len(file_list) |->
                        [file |-> file_list[i].name,
                         hash |-> hash_bitstring(file_list[i].bytes)]]]

\* ----------------------------------------------- SignedObject.__init__
SignedObject_init(S, issuer, fname, ctype, econtent, ip, as) ==
    LET id == Len(S.certs) + 1
        S0 == [S EXCEPT !.cas = Append(@, NoCaState),
                        !.crl_log = Append(@, <<>>)]
        S1 == BaseResourceCertificate_init(S0,
                [ca |-> FALSE, issuer |-> issuer,
                 common_name |-> signed_attrs_digest(ctype, econtent),
                 base_uri |-> DEFAULT_BASE_URI,
                 given_base_uri |-> DEFAULT_BASE_URI,
                 ip_resources |-> ip, as_resources |-> as,
                 ctype |-> ctype, econtent |-> econtent, file_name |-> fname])
    IN  [S1 EXCEPT !.certs[id].certificates = <<id>>,
                   !.certs[id].sid = Optional(S1.certs[id].ski),
                   !.certs[id].signature = Optional(sign_object(S1.certs, id))]

\* The statements of SignedObject.__init__ in their order, each of which
\* returns or raises: the eContent and its EncapsulatedContentInfo, the EE
\* certificate (which the issuer signs and takes into its list), the
\* signature of the EE key over the signedAttrs, the SignedData.
STAGES == {"econtent", "ee_cert", "sign_object", "SignedData"}
SignedObject_init_raising(S, issuer, fname, ctype, econtent, ip, as, raises) ==
    LET S0 == [S EXCEPT !.cas = Append(@, NoCaState),
                        !.crl_log = Append(@, <<>>)]
        S1 == BaseResourceCertificate_init(S0,
                [ca |-> FALSE, issuer |-> issuer,
                 common_name |-> signed_attrs_digest(ctype, econtent),
                 base_uri |-> DEFAULT_BASE_URI,
                 given_base_uri |-> DEFAULT_BASE_URI,
                 ip_resources |-> ip, as_resources |-> as,
                 ctype |-> ctype, econtent |-> econtent, file_name |-> fname])
    IN  CASE raises = "econtent" -> raise(S)
          [] raises = "ee_cert" -> issue_cert_signing(S, issuer, issuer, FALSE)
          [] raises \in {"sign_object", "SignedData"} -> raise(S1)
          [] OTHER -> SignedObject_init(S, issuer, fname, ctype, econtent, ip, as)

RouteOriginAttestation(S, issuer, as_id, ip_address_blocks) ==
    SignedObject_init(S, issuer, None, "roa",
        RouteOriginAttestationContentType(as_id, ip_address_blocks),
        Optional(roa_ip_resources(ip_address_blocks)), None)

RpkiGhostbusters(S, issuer, full_name) ==
    SignedObject_init(S, issuer, None, "gbr",
        RpkiGhostbustersEContent(full_name),
        Optional(<<INHERIT_IPV4, INHERIT_IPV6>>), Optional(INHERIT_AS))

RpkiManifest(S, issuer, fname, manifest_number, file_list) ==
    SignedObject_init(S, issuer, Optional(fname), "mft",
        RpkiManifestContentType(manifest_number, file_list),
        Optional(<<INHERIT_IPV4, INHERIT_IPV6>>), Optional(INHERIT_AS))

\* -------------------------------------- CertificateAuthority.issue_mft
\* A variant that advances next_mft_number before the manifest is built.
issue_mft_increment_first(S, ca, file_list) ==
    LET id == Len(S.certs) + 1
        S1 == RpkiManifest(S, ca, basename(mft_path(S.certs, ca)),
                           S.cas[ca].next_mft_number + 1, file_list)
    IN  [S1 EXCEPT !.cas[ca].mft = Optional(id),
                   !.cas[ca].next_mft_number = @ + 1]

issue_mft(S, ca, file_list) ==
    LET id == Len(S.certs) + 1
        S1 == RpkiManifest(S, ca, basename(mft_path(S.certs, ca)),
                           S.cas[ca].next_mft_number, file_list)
    IN  [S1 EXCEPT !.cas[ca].mft = Optional(id),
                   !.cas[ca].next_mft_number = @ + 1]

\* issue_mft when a statement of the construction of the manifest raises.
issue_mft_raising(S, ca, file_list, raises) ==
    LET id == Len(S.certs) + 1
        S1 == SignedObject_init_raising(S, ca,
                    Optional(basename(mft_path(S.certs, ca))), "mft",
                    RpkiManifestContentType(S.cas[ca].next_mft_number, file_list),
                    Optional(<<INHERIT_IPV4, INHERIT_IPV6>>),
                    Optional(INHERIT_AS), raises)
    IN  IF S1.failed THEN S1
        ELSE [S1 EXCEPT !.cas[ca].mft = Optional(id),
                        !.cas[ca].next_mft_number = @ + 1]

\* ------------------------------------------------------- the file system
Event(ev, by, path) == [ev |-> ev, by |-> by, path |-> path]
Log(S, ev, by, path) == [S EXCEPT !.log = Append(@, Event(ev, by, path))]

\* os.makedirs(path, exist_ok=True)
makedirs(S, path) ==
    [S EXCEPT !.dirs = @ \cup {SubSeq(path, 1, k) : k \in 0..Len(path)}]

\* open(path, "wb") and write: raises when the directory does not exist.
write_file(S, ev, by, path, bytes) ==
    IF S.failed THEN S
    ELSE IF dirname(path) \notin S.dirs THEN [S EXCEPT !.failed = TRUE]
    ELSE Log([S EXCEPT !.files = (path :> bytes) @@ @], ev, by, path)

\* --------------------------------------------------------------- publish
\* mft_entry of a CertificateAuthority and of an EECertificate.
mft_entry(S, id) ==
    IF IsCA(S.certs, id)
    THEN [name |-> basename(cert_path(S.certs, id)), bytes |-> cert_bytes(id)]
    ELSE [name |-> basename(object_path(S.certs, id)), bytes |-> object_bytes(id)]

\* EECertificate.publish
EECertificate_publish(S, id) ==
    write_file(S, "write_obj", id,
               uri_path(S.certs[id]) \o object_path(S.certs, id),
               object_bytes(id))

\* The manifest step of CertificateAuthority.publish: issue_mft and the
\* write of self.mft.to_der().
publish_mft(S, ca, mft_file_list) ==
    IF S.failed THEN S
    ELSE LET S1 == Log(issue_mft(S, ca, mft_file_list), "issue_mft", ca, <<>>)
         IN  write_file(S1, "write_mft", ca,
                        uri_path(S1.certs[ca]) \o mft_path(S1.certs, ca),
                        object_bytes(S1.cas[ca].mft[1]))

RECURSIVE CertificateAuthority_publish(_, _, _)
RECURSIVE publish_issued(_, _, _, _, _)

\* The loop of CertificateAuthority.publish over self.issued; the result is
\* the state and the manifest file list.
publish_issued(S, ca, todo, mft_file_list, recursive) ==
    IF todo = <<>> \/ S.failed
    THEN [S |-> S, mft_file_list |-> mft_file_list]
    ELSE LET issuee == Head(todo)
         IN  IF issuee = ca
             THEN publish_issued(S, ca, Tail(todo), mft_file_list, recursive)
             ELSE IF ~IsCA(S.certs, issuee) /\ S.certs[issuee].signature = None
             \* mft_entry: signed_object.to_der() of an object whose
             \* construction did not reach Interface.__init__ raises.
             THEN [S |-> raise(S), mft_file_list |-> mft_file_list]
             ELSE LET entries == Append(mft_file_list, mft_entry(S, issuee))
                      S1 == IF ~recursive THEN S
                            ELSE IF IsCA(S.certs, issuee)
                            THEN CertificateAuthority_publish(S, issuee, recursive)
                            ELSE EECertificate_publish(S, issuee)
                  IN  publish_issued(S1, ca, Tail(todo), entries, recursive)

\* A variant that issues and writes the manifest before the issuees are
\* published.
publish_manifest_first(S, ca, recursive) ==
    LET full_pub_path == uri_path(S.certs[ca])
        S1 == makedirs(Log(S, "begin", ca, <<>>),
                       full_pub_path \o repo_path(S.certs, ca))
        S2 == write_file(S1, "write_cert", ca,
                         full_pub_path \o cert_path(S.certs, ca), cert_bytes(ca))
        S3 == write_file(S2, "write_crl", ca,
                         full_pub_path \o crl_path(S.certs, ca), crl_der(S, ca))
        first == [name |-> basename(crl_path(S.certs, ca)),
                  bytes |-> crl_der(S, ca)]
        S4 == publish_mft(S3, ca, <<first>>)
        R == publish_issued(S4, ca, S.cas[ca].issued, <<first>>, recursive)
    IN  IF R.S.failed THEN R.S ELSE Log(R.S, "end", ca, <<>>)

CertificateAuthority_publish(S, ca, recursive) ==
    LET full_pub_path == uri_path(S.certs[ca])
        S1 == makedirs(Log(S, "begin", ca, <<>>),
                       full_pub_path \o repo_path(S.certs, ca))
        S2 == write_file(S1, "write_cert", ca,
                         full_pub_path \o cert_path(S.certs, ca), cert_bytes(ca))
        S3 == write_file(S2, "write_crl", ca,
                         full_pub_path \o crl_path(S.certs, ca), crl_der(S, ca))
        first == [name |-> basename(crl_path(S.certs, ca)),
                  bytes |-> crl_der(S, ca)]
        R == publish_issued(S3, ca, S.cas[ca].issued, <<first>>, recursive)
        S4 == publish_mft(R.S, ca, R.mft_file_list)
    IN  IF S4.failed THEN S4 ELSE Log(S4, "end", ca, <<>>)

\* TACertificateAuthority.tal
tal(cs, id) == [uri |-> UriJoin(cs[id].base_uri, cert_path(cs, id)),
                spki |-> cs[id].key]

\* ---------------------------------------------------------------- inputs
RoaBlock(network, maxlen) == [network |-> network, maxlen |-> maxlen]
ROA_NETWORKS ==
    {<<RoaBlock(Net10_1, Optional(24)), RoaBlock(Net6, None)>>,
     <<RoaBlock(Net10, Optional(4))>>}
\* The arguments of a subordinate CA: the defaults, another name with
\* resources its issuer does not hold, another base_uri, and no resources.
CA_ARGS ==
    {[common_name |-> "CA", base_uri |-> DEFAULT_BASE_URI, res |-> IN_RESOURCES],
     [common_name |-> "CB", base_uri |-> DEFAULT_BASE_URI, res |-> OUT_RESOURCES],
     [common_name |-> "CA", base_uri |-> OTHER_BASE_URI, res |-> IN_RESOURCES],
     [common_name |-> "CN", base_uri |-> DEFAULT_BASE_URI, res |-> NO_RESOURCES]}
DEFAULT_ROA_ASID == 65000
DEFAULT_GBR_FULLNAME == "Jane Doe"

\* ------------------------------------------------------------ operations
Op(op, ca, recursive, ok) ==
    [op |-> op, ca |-> ca, recursive |-> recursive, ok |-> ok]

\* last and pub_log describe the call just made when it was a publish.
NoOp == Op("", 0, FALSE, TRUE)

CommitObjects(S, op) ==
    /\ certs' = S.certs
    /\ cas' = S.cas
    /\ crl_log' = S.crl_log
    /\ files' = S.files
    /\ dirs' = S.dirs
    /\ last' = op
Commit(S, op) == CommitObjects(S, op) /\ UNCHANGED side

\* What has been issued so far: every entry of every issued list, and every
\* CRL after the one the constructor issues.
RECURSIVE IssuedUpTo(_, _)
IssuedUpTo(S, n) ==
    IF n = 0 THEN 0
    ELSE IssuedUpTo(S, n - 1) + Len(S.cas[n].issued)
            + (IF S.certs[n].ca THEN S.cas[n].next_crl_number - 1 ELSE 0)
Issued(S) == IssuedUpTo(S, Len(S.certs))

NoRuns == <<>>
NoRange ==
    [pc |-> "", input_str |-> [lower |-> <<>>, upper |-> <<>>], version |-> 0,
     low_bits |-> <<>>, low_len |-> 0, high_bits |-> <<>>, high_len |-> 0,
     ext |-> <<>>]

InitObjects ==
    /\ certs = <<>>
    /\ cas = <<>>
    /\ crl_log = <<>>
    /\ files = [p \in {} |-> cert_bytes(0)]
    /\ dirs = {}
    /\ tal_file = None
    /\ pub_log = <<>>
    /\ last = NoOp

NoCall ==
    [pc |-> "", cmd |-> "", argv_ok |-> TRUE, verbosity |-> 0,
     writable |-> TRUE, raised |-> "", rc |-> None]

NoThreads == [at |-> <<>>, locks |-> {}, set |-> {}]
NoBlocks == [pc |-> "", ip_resources |-> <<>>, ext |-> <<>>]
NoError ==
    [call |-> "", ca |-> 0, stage |-> "", before |-> NoCaState, state |-> <<>>]

Init ==
    /\ InitObjects
    /\ runs = NoRuns
    /\ rng = NoRange
    /\ cli = NoCall
    /\ thr = NoThreads
    /\ blk = NoBlocks
    /\ err = NoError

\* ta = TACertificateAuthority(base_uri=..., as_resources=..., ip_resources=...)
NewTA ==
    \E base_uri \in BaseUris, res \in TA_RESOURCES :
        /\ Len(certs) = 0
        /\ Commit(TACertificateAuthority_init(Cur, PlainCn("TA"), base_uri, res),
                  NoOp)
        /\ pub_log' = <<>>
        /\ UNCHANGED tal_file

\* CertificateAuthority(issuer=..., common_name=..., base_uri=..., ...)
NewCA ==
    \E issuer \in CAs, a \in CA_ARGS :
        /\ Issued(Cur) < MaxIssued
        /\ Commit(CertificateAuthority_init(Cur, issuer, PlainCn(a.common_name),
                                            a.base_uri, a.base_uri, a.res),
                  NoOp)
        /\ pub_log' = <<>>
        /\ UNCHANGED tal_file

\* RouteOriginAttestation(issuer=..., as_id=..., ip_address_blocks=...)
NewROA ==
    \E issuer \in CAs, blocks \in ROA_NETWORKS :
        /\ Issued(Cur) < MaxIssued
        /\ Commit(RouteOriginAttestation(Cur, issuer, DEFAULT_ROA_ASID, blocks),
                  NoOp)
        /\ pub_log' = <<>>
        /\ UNCHANGED tal_file

\* RpkiGhostbusters(issuer=..., full_name=...)
NewGBR ==
    \E issuer \in CAs :
        /\ Issued(Cur) < MaxIssued
        /\ Commit(RpkiGhostbusters(Cur, issuer, DEFAULT_GBR_FULLNAME),
                  NoOp)
        /\ pub_log' = <<>>
        /\ UNCHANGED tal_file

\* ca.issue_cert() and ca.issue_cert(subject), for a subject the CA holds
IssueCert ==
    \E ca \in CAs :
        \E subject \in {ca} \cup {cas[ca].issued[i] : i \in 1..Len(cas[ca].issued)} :
            /\ Issued(Cur) < MaxIssued
            /\ Commit(issue_cert(Cur, ca, subject), NoOp)
            /\ pub_log' = <<>>
        /\ UNCHANGED tal_file

\* ca.issue_crl() and ca.issue_crl(to_revoke)
IssueCrl ==
    \E ca \in CAs :
        \E to_revoke \in {None} \cup
                {Optional(<<cas[ca].issued[i]>>) : i \in 1..Len(cas[ca].issued)} :
            /\ Issued(Cur) < MaxIssued
            /\ Commit(issue_crl(Cur, ca, to_revoke), NoOp)
            /\ pub_log' = <<>>
        /\ UNCHANGED tal_file

\* ca.issue_mft(file_list)
IssueMft ==
    \E ca \in CAs :
        \E file_list \in {<<[name |-> basename(crl_path(certs, ca)),
                             bytes |-> crl_der(Cur, ca)]>>} :
            /\ Issued(Cur) < MaxIssued
            /\ Commit(issue_mft(Cur, ca, file_list), NoOp)
            /\ pub_log' = <<>>
        /\ UNCHANGED tal_file

\* ca.publish(pub_path=..., recursive=...), and for the TA tal_path=...
Publish ==
    \E ca \in CAs, recursive \in BOOLEAN :
        /\ Issued(Cur) < MaxIssued
        /\ \E S \in {CertificateAuthority_publish(Cur, ca, recursive)} :
            /\ Issued(S) <= MaxIssued
            /\ Commit(S, Op("publish", ca, recursive, ~S.failed))
            /\ pub_log' = S.log
            /\ tal_file' = IF IsTA(certs, ca) /\ ~S.failed
                           THEN Optional(tal(certs, ca))
                           ELSE tal_file

Next ==
    \/ NewTA
    \/ NewCA
    \/ NewROA
    \/ NewGBR
    \/ IssueCert
    \/ IssueCrl
    \/ IssueMft
    \/ Publish

Spec == Init /\ [][Next]_vars

\* ------------------------------------------------------ calls that raise
\* A hierarchy of a few objects is built, then one call raises, and then
\* a CA is published.
MaxBefore == 2

Raise(S, call, ca, stage) ==
    /\ err.call = ""
    /\ CommitObjects(S, Op("raise", ca, FALSE, FALSE))
    /\ pub_log' = <<>>
    /\ err' = [call |-> call, ca |-> ca, stage |-> stage, before |-> cas[ca],
               state |-> Cur]
    /\ UNCHANGED <<tal_file, runs, rng, cli, thr, blk>>

Build ==
    /\ err.call = ""
    /\ Len(certs) > 0 => Issued(Cur) < MaxBefore
    /\ NewTA \/ NewCA \/ NewROA \/ NewGBR

\* ca.issue_cert() and ca.issue_cert(subject) when the signing raises
IssueCertRaises ==
    \E ca \in CAs :
        \E subject \in {ca} \cup {cas[ca].issued[i] : i \in 1..Len(cas[ca].issued)} :
            Raise(issue_cert_signing(Cur, ca, subject, FALSE), "issue_cert", ca, "sign")

\* ca.issue_crl() and ca.issue_crl(to_revoke) when the signing raises
IssueCrlRaises ==
    \E ca \in CAs :
        \E to_revoke \in {None} \cup
                {Optional(<<cas[ca].issued[i]>>) : i \in 1..Len(cas[ca].issued)} :
            Raise(issue_crl_signing(Cur, ca, to_revoke, FALSE), "issue_crl", ca, "sign")

\* RouteOriginAttestation(issuer=..., ...) when one of its statements raises
NewROARaises ==
    \E issuer \in CAs, blocks \in ROA_NETWORKS, stage \in STAGES :
        Raise(SignedObject_init_raising(Cur, issuer, None, "roa",
                    RouteOriginAttestationContentType(DEFAULT_ROA_ASID, blocks),
                    Optional(roa_ip_resources(blocks)), None, stage),
              "SignedObject", issuer, stage)

\* ca.issue_mft(file_list) when a statement of RpkiManifest(...) raises
IssueMftRaises ==
    \E ca \in CAs, stage \in STAGES :
        \E file_list \in {<<[name |-> basename(crl_path(certs, ca)),
                             bytes |-> crl_der(Cur, ca)]>>} :
            Raise(issue_mft_raising(Cur, ca, file_list, stage),
                  "issue_mft", ca, stage)

\* ca.publish(...) as the call that follows the one that raised
PublishAfter == last.op = "raise" /\ Publish

NextRaise ==
    \/ Build
    \/ IssueCertRaises
    \/ IssueCrlRaises
    \/ NewROARaises
    \/ IssueMftRaises
    \/ PublishAfter
SpecRaise == Init /\ [][NextRaise]_vars

\* ------------------------------------------------------- two pipeline runs
\* The same calls, with the same arguments and the same generated keys, made
\* in two processes started at the same time.  No call takes a time: each
\* reads the system clock when it runs (datetime.utcnow() in
\* BaseResourceCertificate.__init__, issue_crl and issue_mft), and the two
\* processes need not run at the same pace.
MaxClock == 2
MaxOutput == 3
DAYS == 365
CRL_DAYS == 7
MFT_DAYS == 7

Validity(kind) ==
    CASE kind = "cer" -> DAYS [] kind = "crl" -> CRL_DAYS [] kind = "mft" -> MFT_DAYS

\* What a call puts out: its place in the run, which fixes the arguments, the
\* counters and the key, and the two times taken from the clock.
Output(kind, n, now) ==
    [kind |-> kind, n |-> n, key |-> n, from |-> now, to |-> now + Validity(kind)]

InitRuns ==
    /\ InitObjects
    /\ rng = NoRange
    /\ cli = NoCall
    /\ thr = NoThreads
    /\ blk = NoBlocks
    /\ err = NoError
    /\ \E t \in 0..MaxClock : runs = [r \in 1..2 |-> [clock |-> t, out |-> <<>>]]

\* Both processes make the next call.
RunCall ==
    \E kind \in {"cer", "crl", "mft"} :
        /\ Len(runs[1].out) < MaxOutput
        /\ runs' = [r \in 1..2 |->
                        [runs[r] EXCEPT !.out = Append(@,
                            Output(kind, Len(@) + 1, runs[r].clock))]]
        /\ UNCHANGED <<objects, rng, cli, thr, blk, err>>

\* Time passes in one of the processes.
RunTick ==
    \E r \in 1..2 :
        /\ runs[r].clock < MaxClock
        /\ runs' = [runs EXCEPT ![r].clock = @ + 1]
        /\ UNCHANGED <<objects, rng, cli, thr, blk, err>>

NextRuns == RunCall \/ RunTick
SpecRuns == InitRuns /\ [][NextRuns]_vars

\* ------------------------------------------------- one address range
\* An argument "<addr-lower>-<addr-upper>" of IPv4 addresses in dotted
\* quads, taken through cli.helpers.ip_resource, IPAddressRange.__init__ one
\* loop turn at a time, and IPAddrBlocks.__init__.
MaxTurns == 33

LOWER ==
    {<<192, 168, 1, 128>>, <<192, 168, 0, 0>>, <<10, 0, 0, 0>>, <<0, 0, 0, 0>>,
     <<0, 0, 0, 1>>, <<10, 0, 0, 255>>, <<128, 0, 0, 0>>, <<172, 16, 0, 0>>}
UPPER ==
    {<<192, 168, 2, 255>>, <<255, 255, 255, 255>>, <<10, 255, 255, 255>>,
     <<192, 168, 1, 128>>, <<0, 0, 0, 0>>, <<172, 31, 255, 255>>,
     <<10, 0, 0, 255>>, <<192, 168, 2, 254>>}

\* int(ipaddress.IPv4Address("a.b.c.d")) as 32 bits.
RECURSIVE to_bits(_, _)
to_bits(n, width) ==
    IF width = 0 THEN <<>> ELSE to_bits(n \div 2, width - 1) \o <<n % 2>>
IPv4Address(quad) ==
    to_bits(quad[1], 8) \o to_bits(quad[2], 8) \o to_bits(quad[3], 8)
        \o to_bits(quad[4], 8)

\* cli.helpers.ip_resource, for an argument that is not a network: the two
\* sides of the "-" as addresses.
ip_resource(input_str) ==
    IPRange(4, IPv4Address(input_str.lower), IPv4Address(input_str.upper))

InitRange ==
    /\ InitObjects
    /\ runs = NoRuns
    /\ cli = NoCall
    /\ thr = NoThreads
    /\ blk = NoBlocks
    /\ err = NoError
    /\ \E lower \in LOWER, upper \in UPPER :
            rng = [NoRange EXCEPT !.pc = "arg",
                                  !.input_str = [lower |-> lower, upper |-> upper]]

\* ip_resource, and IPAddressRange.__init__ up to the first loop.
RangeParse ==
    /\ rng.pc = "arg"
    /\ LET r == ip_resource(rng.input_str)
       IN  rng' = [rng EXCEPT !.pc = "low",
                              !.version = r.version,
                              !.low_bits = r.bits,
                              !.low_len = max_prefixlen(r.version),
                              !.high_bits = r.high,
                              !.high_len = max_prefixlen(r.version)]
    /\ UNCHANGED <<objects, runs, cli, thr, blk, err>>

\* One turn of: while low_bits % 2 == 0
RangeLowTurn ==
    /\ rng.pc = "low"
    /\ mod2(rng.low_bits) = 0
    /\ max_prefixlen(rng.version) - rng.low_len < MaxTurns
    /\ rng' = [rng EXCEPT !.low_bits = shr(@), !.low_len = @ - 1]
    /\ UNCHANGED <<objects, runs, cli, thr, blk, err>>

RangeLowEnd ==
    /\ rng.pc = "low"
    /\ mod2(rng.low_bits) # 0
    /\ rng' = [rng EXCEPT !.pc = "high"]
    /\ UNCHANGED <<objects, runs, cli, thr, blk, err>>

\* One turn of: while high_bits % 2 == 1
RangeHighTurn ==
    /\ rng.pc = "high"
    /\ mod2(rng.high_bits) = 1
    /\ rng' = [rng EXCEPT !.high_bits = shr(@), !.high_len = @ - 1]
    /\ UNCHANGED <<objects, runs, cli, thr, blk, err>>

\* The end of IPAddressRange.__init__, and IPAddrBlocks.__init__ around it.
RangeEnd ==
    /\ rng.pc = "high"
    /\ mod2(rng.high_bits) # 1
    /\ LET content_data == [min |-> BitString(rng.low_bits, rng.low_len),
                            max |-> BitString(rng.high_bits, rng.high_len)]
       IN  rng' = [rng EXCEPT !.pc = "done",
                              !.ext = families(<<[version |-> rng.version,
                                                  data |-> RangeData(content_data)]>>)]
    /\ UNCHANGED <<objects, runs, cli, thr, blk, err>>

NextRange ==
    \/ RangeParse
    \/ RangeLowTurn
    \/ RangeLowEnd
    \/ RangeHighTurn
    \/ RangeEnd
SpecRange == InitRange /\ [][NextRange]_vars

\* ------------------------------------------------- the command line
\* main(argv): Cli.__call__ parses argv and, inside its try, Cli.run hands
\* the parsed arguments to the subcommand's __call__, whose try is around
\* the subcommand's run.
MaxVerbosity == 3

EmptyState ==
    [certs |-> <<>>, cas |-> <<>>, crl_log |-> <<>>,
     files |-> [p \in {} |-> cert_bytes(0)], dirs |-> {}, log |-> <<>>,
     failed |-> FALSE]

\* The defaults of conjure.  The upper end of the TA's AS range is 2^32 - 1
\* in the source and 65535 here.
DEFAULT_TA_RESOURCES ==
    [ip |-> Optional(<<Net(4, <<>>), Net6>>),
     as |-> Optional(AsList(<<AsRange(0, 65535)>>))]
Net2001_db8 ==
    Net(6, <<0, 0, 1, 0, 0, 0, 0, 0, 0, 0, 0, 0, 0, 0, 0, 1,
             0, 0, 0, 0, 1, 1, 0, 1, 1, 0, 1, 1, 1, 0, 0, 0>>)
DEFAULT_CA_RESOURCES ==
    [ip |-> Optional(<<Net10,
                       IPRange(4, IPv4Address(<<192, 168, 0, 0>>),
                                  IPv4Address(<<192, 168, 2, 255>>)),
                       Net2001_db8>>),
     as |-> Optional(AsList(<<AsId(65000)>>))]
DEFAULT_ROA_NETWORKS == <<RoaBlock(Net10, None), RoaBlock(Net2001_db8, None)>>

\* Conjure.run with the default arguments and no plugins, up to the return:
\* the state it leaves.  The first makedirs raises when output_dir cannot
\* be written.
Conjure_run(writable) ==
    LET S1 == TACertificateAuthority_init(EmptyState, PlainCn("TA"),
                                          DEFAULT_BASE_URI, DEFAULT_TA_RESOURCES)
        S2 == CertificateAuthority_init(S1, 1, PlainCn("CA"), DEFAULT_BASE_URI,
                                        DEFAULT_BASE_URI, DEFAULT_CA_RESOURCES)
        S3 == RouteOriginAttestation(S2, 2, DEFAULT_ROA_ASID, DEFAULT_ROA_NETWORKS)
        S4 == RpkiGhostbusters(S3, 2, DEFAULT_GBR_FULLNAME)
    IN  IF writable THEN CertificateAuthority_publish(S4, 1, TRUE)
        ELSE [S4 EXCEPT !.failed = TRUE]

\* What the run of a subcommand comes to: "" when it returns, else the
\* exception it raises.  Perceive reads files that may not be there.
RunOutcomes(call) ==
    IF call.cmd = "conjure"
    THEN {IF Conjure_run(call.writable).failed THEN "Exception" ELSE ""}
    ELSE {"", "Exception"}

InitCli ==
    /\ InitObjects
    /\ runs = NoRuns
    /\ rng = NoRange
    /\ thr = NoThreads
    /\ blk = NoBlocks
    /\ err = NoError
    /\ \E cmd \in {"conjure", "perceive"}, argv_ok \in BOOLEAN,
          verbosity \in 0..MaxVerbosity, writable \in BOOLEAN :
            cli = [NoCall EXCEPT !.pc = "parse", !.cmd = cmd,
                                 !.argv_ok = argv_ok, !.verbosity = verbosity,
                                 !.writable = writable]

\* BaseCommand.__call__ of Cli, before the try: parse_args leaves through
\* SystemExit when argv does not parse.
CliParse ==
    /\ cli.pc = "parse"
    /\ cli' = IF cli.argv_ok THEN [cli EXCEPT !.pc = "try"]
              ELSE [cli EXCEPT !.pc = "escaped", !.raised = "SystemExit"]
    /\ UNCHANGED <<objects, runs, rng, thr, blk, err>>

\* Cli.run inside the try: parsed_args.run(parsed_args), the __call__ of the
\* subcommand, which enters its own try.
CliRun ==
    /\ cli.pc = "try"
    /\ cli' = [cli EXCEPT !.pc = "run"]
    /\ UNCHANGED <<objects, runs, rng, thr, blk, err>>

\* The subcommand's run returns or raises; its __call__ returns what run
\* returned, or 1 from except Exception.
SubRun ==
    /\ cli.pc = "run"
    /\ \E raised \in RunOutcomes(cli) :
            cli' = [cli EXCEPT !.pc = "ran", !.raised = raised,
                               !.rc = IF raised = "" THEN None ELSE Optional(1)]
    /\ UNCHANGED <<objects, runs, rng, thr, blk, err>>

\* Ctrl+C: KeyboardInterrupt is raised where the program is.  Inside a try
\* of __call__ it is caught and 2 returned; while argv is parsed it is not.
Interrupt ==
    /\ cli.pc \in {"parse", "try", "run"}
    /\ cli' = IF cli.pc = "parse"
              THEN [cli EXCEPT !.pc = "escaped", !.raised = "KeyboardInterrupt"]
              ELSE [cli EXCEPT !.pc = "ran", !.raised = "KeyboardInterrupt",
                               !.rc = Optional(2)]
    /\ UNCHANGED <<objects, runs, rng, thr, blk, err>>

\* Cli.run returns rc and Cli.__call__ returns it.
CliReturn ==
    /\ cli.pc = "ran"
    /\ cli' = [cli EXCEPT !.pc = "returned"]
    /\ UNCHANGED <<objects, runs, rng, thr, blk, err>>

NextCli ==
    \/ CliParse
    \/ CliRun
    \/ SubRun
    \/ Interrupt
    \/ CliReturn
SpecCli == InitCli /\ [][NextCli]_vars

\* ------------------------------------------------------- IPAddrBlocks
\* IPAddrBlocks.__init__ on a list of networks, ranges and inherit markers
\* in any order.
MaxEntries == 3

IP_ENTRIES ==
    {Net10, Net10_1, Net192, Net6, Net2001_db8, INHERIT_IPV4, INHERIT_IPV6,
     IPRange(4, IPv4Address(<<192, 168, 1, 128>>),
                IPv4Address(<<192, 168, 2, 255>>))}

RECURSIVE Lists(_, _)
Lists(set, n) ==
    IF n = 0 THEN {<<>>}
    ELSE Lists(set, n - 1)
            \cup {Append(l, e) : l \in {m \in Lists(set, n - 1) : Len(m) = n - 1},
                                 e \in set}

InitBlocks ==
    /\ InitObjects
    /\ runs = NoRuns
    /\ rng = NoRange
    /\ cli = NoCall
    /\ thr = NoThreads
    /\ err = NoError
    /\ \E ip_resources \in Lists(IP_ENTRIES, MaxEntries) :
            blk = [NoBlocks EXCEPT !.pc = "given", !.ip_resources = ip_resources]

IPAddrBlocks_init ==
    /\ blk.pc = "given"
    /\ blk' = [blk EXCEPT !.pc = "done", !.ext = IPAddrBlocks(blk.ip_resources)]
    /\ UNCHANGED <<objects, runs, rng, cli, thr, err>>

NextBlocks == IPAddrBlocks_init
SpecBlocks == InitBlocks /\ [][NextBlocks]_vars

\* ------------------------------------------------------ asn1.Interface
\* Threads that call to_der (through Interface.constructed) and from_der on
\* Interface classes.  Interface.__init_subclass__ gives every class a lock
\* of its own; content_syntax is a class attribute, inherited by subclasses
\* that do not set it: the signed objects all have that of cms.ContentInfo.
Threads == 2

CLASSES ==
    {"RouteOriginAttestation", "RpkiManifest", "RpkiGhostbusters",
     "SignedAttributes"}
content_syntax(cls) ==
    CASE cls = "SignedAttributes" ->
            "CryptographicMessageSyntax_2009.SignedAttributes"
      [] cls = "EncapsulatedContentInfo" ->
            "CryptographicMessageSyntax_2009.EncapsulatedContentInfo"
      [] cls = "SignedData" -> "CryptographicMessageSyntax_2009.SignedData"
      [] cls = "RouteOriginAttestationContentType" ->
            "RPKI_ROA_2023.RouteOriginAttestation"
      [] cls = "Certificate" -> "PKIX1Explicit_2009.Certificate"
      [] cls = "SubjectPublicKeyInfo" ->
            "PKIX1Explicit_2009.SubjectPublicKeyInfo"
      [] OTHER -> "CryptographicMessageSyntax_2009.ContentInfo"
\* cls._lock
lock(cls) == cls

\* What a call does, as the sections it passes through one after the other,
\* each of them one with block on the lock of a class.
Section(cls, call) == [cls |-> cls, call |-> call]
to_der(cls) == <<Section(cls, "to_der")>>
\* The decoding under cls._lock, then Interface.__init__ on the data.
from_der(cls) == <<Section(cls, "from_der"), Section(cls, "__init__")>>
\* econtent.to_der() is an item of the data handed to Interface.__init__.
EncapsulatedContentInfo_init(econtent) ==
    to_der(econtent) \o <<Section("EncapsulatedContentInfo", "__init__")>>
\* get_val_at under the lock of the content info, then cls.from_data(data).
from_content_info(content_info) ==
    <<Section(content_info, "constructed"),
      Section("EncapsulatedContentInfo", "__init__")>>
\* get_val_at under the lock of Certificate, then SubjectPublicKeyInfo(data).
subject_public_key_info ==
    <<Section("Certificate", "constructed"),
      Section("SubjectPublicKeyInfo", "__init__")>>
\* The end of SignedObject.__init__: ee_cert.asn1_cert.content_data is an
\* item of the data of SignedData, which is the content of the ContentInfo.
SignedData_init(cls) ==
    from_der("Certificate") \o <<Section("SignedData", "__init__"),
                                 Section(cls, "__init__")>>

CALLS ==
    {to_der(cls) : cls \in CLASSES}
        \cup {from_der("RouteOriginAttestation"),
              EncapsulatedContentInfo_init("RouteOriginAttestationContentType"),
              from_content_info("RouteOriginAttestation"),
              subject_public_key_info,
              SignedData_init("RouteOriginAttestation")}

Idle == [pc |-> "idle", cls |-> "", call |-> "", todo |-> <<>>, exc |-> FALSE]
Enter(todo) ==
    [pc |-> "acquire", cls |-> todo[1].cls, call |-> todo[1].call,
     todo |-> Tail(todo), exc |-> FALSE]
\* The end of a with block on the lock of cls.
unlock_never(locks, t, cls) == locks
unlock(locks, t, cls) == locks \ {<<lock(cls), t>>}

InitThreads ==
    /\ InitObjects
    /\ runs = NoRuns
    /\ rng = NoRange
    /\ cli = NoCall
    /\ thr = [at |-> [t \in 1..Threads |-> Idle], locks |-> {}, set |-> {}]
    /\ blk = NoBlocks
    /\ err = NoError

\* A thread makes one of the calls.
Call(t) ==
    \E call \in CALLS :
        /\ thr.at[t].pc = "idle"
        /\ thr' = [thr EXCEPT !.at[t] = Enter(call)]
        /\ UNCHANGED <<objects, runs, rng, cli, blk, err>>

\* with self._lock: / with cls._lock: threading.Lock is not reentrant, the
\* thread waits while anyone, itself included, has the lock.
Acquire(t) ==
    /\ thr.at[t].pc = "acquire"
    /\ \A u \in DOMAIN thr.at : <<lock(thr.at[t].cls), u>> \notin thr.locks
    /\ thr' = [thr EXCEPT !.at[t].pc = "locked",
                          !.locks = @ \cup {<<lock(thr.at[t].cls), t>>}]
    /\ UNCHANGED <<objects, runs, rng, cli, blk, err>>

\* The template of cls holds the value thread t gives it, in place of the
\* one it held.
put(set, t, cls) ==
    {e \in set : e[1] # content_syntax(cls)} \cup {<<content_syntax(cls), t>>}

\* content_syntax.set_val(data), or content_syntax.from_der(der_data)
SetVal(t) ==
    /\ thr.at[t].pc = "locked"
    /\ thr' = [thr EXCEPT !.at[t].pc = "set",
                          !.set = put(@, t, thr.at[t].cls)]
    /\ UNCHANGED <<objects, runs, rng, cli, blk, err>>

\* set_val on data that does not fit, or content_syntax.from_der on bytes
\* that are not the DER of the type, raises: what the template holds by then
\* is the library's.  The data of to_der and of the other uses of
\* constructed() is self.content_data, which set_val has taken before.
SetValRaises(t) ==
    \E partial \in BOOLEAN :
        /\ thr.at[t].pc = "locked"
        /\ thr.at[t].call \in {"from_der", "__init__"}
        /\ thr' = [thr EXCEPT !.at[t].pc = "raised",
                              !.at[t].exc = TRUE,
                              !.set = IF partial
                                      THEN put(@, t, thr.at[t].cls)
                                      ELSE @]
        /\ UNCHANGED <<objects, runs, rng, cli, blk, err>>

\* content_syntax.reset_val(): the template holds no value, whoever set it.
\* Interface.constructed has it in a finally clause, from_der after get_val.
ResetVal(t) ==
    /\ \/ thr.at[t].pc = "set"
       \/ thr.at[t].pc = "raised" /\ thr.at[t].call # "from_der"
    /\ thr' = [thr EXCEPT !.at[t].pc = "reset",
                          !.set = {e \in @ : e[1] # content_syntax(thr.at[t].cls)}]
    /\ UNCHANGED <<objects, runs, rng, cli, blk, err>>

\* What the templates hold once thread t has left its with block: a value
\* it did not reset stays, a value of no call.
left(set, t) == {IF e[2] = t THEN <<e[1], 0>> ELSE e : e \in set}

\* The end of the with block: the next section of the call begins, or the
\* call returns, or what was raised leaves it.
Release(t) ==
    /\ \/ thr.at[t].pc = "reset"
       \/ thr.at[t].pc = "raised" /\ thr.at[t].call = "from_der"
    /\ thr' = [thr EXCEPT !.at[t] = IF thr.at[t].exc \/ thr.at[t].todo = <<>>
                                    THEN Idle
                                    ELSE Enter(thr.at[t].todo),
                          !.locks = unlock(@, t, thr.at[t].cls),
                          !.set = left(@, t)]
    /\ UNCHANGED <<objects, runs, rng, cli, blk, err>>

NextThreads ==
    \E t \in 1..Threads :
        \/ Call(t)
        \/ Acquire(t)
        \/ SetVal(t)
        \/ SetValRaises(t)
        \/ ResetVal(t)
        \/ Release(t)
SpecThreads == InitThreads /\ [][NextThreads]_vars

\* ======================================================================
\* Properties
\* ======================================================================
AllCerts == 1..Len(certs)
Range(seq) == {seq[i] : i \in 1..Len(seq)}
\* The last call was a publish of the TA with recursive=True that returned.
TAPublished ==
    /\ last.op = "publish"
    /\ IsTA(certs, last.ca)
    /\ last.recursive
    /\ last.ok

\* The publication point of a CA, below pub_path, and the files in it.
PublicationPoint(ca) == uri_path(certs[ca]) \o repo_path(certs, ca)
FilesIn(dir) == {p \in DOMAIN files : dirname(p) = dir}
ManifestName == PathName(PlainCn("manifest"), "mft")
LatestFileList(ca) == certs[cas[ca].mft[1]].econtent.fileList

\* C1: after every publish of the TA, for every CA the names of the files in
\* its publication point, manifest.mft aside, are the names in the fileList
\* of its latest manifest, and each hash there is the SHA-256 of the file.
C1_ManifestComplete ==
    TAPublished =>
        \A ca \in CAs :
            LET pp == PublicationPoint(ca)
                fl == LatestFileList(ca)
            IN  /\ {basename(p) : p \in FilesIn(pp)} \ {ManifestName}
                        = {fl[i].file : i \in 1..Len(fl)}
                /\ \A i \in 1..Len(fl) :
                        /\ (pp \o <<fl[i].file>>) \in DOMAIN files
                        /\ fl[i].hash = SHA256(files[pp \o <<fl[i].file>>])

Serials(ca) == [i \in 1..Len(cas[ca].issued) |-> certs[cas[ca].issued[i]].serial]

\* C2: for every CA the serial numbers of the certificates it has issued, in
\* issuance order and its own certificate first when it is the TA, are
\* 1, 2, ..., n: pairwise distinct and without a gap, and the next serial
\* number is n + 1.
C2_SerialsContiguous ==
    \A ca \in CAs :
        /\ Serials(ca) = [i \in 1..Len(cas[ca].issued) |-> i]
        /\ cas[ca].next_serial_number = Len(cas[ca].issued) + 1

\* The resources a certificate holds: an inherit marker stands for what the
\* issuer holds.
RECURSIVE HoldsNet(_, _)
HoldsNet(id, net) ==
    /\ certs[id].ip_resources # None
    /\ \E r \in Range(certs[id].ip_resources[1]) :
            /\ r.version = net.version
            /\ \/ r.kind = "net" /\ IsPrefix(r.bits, net.bits)
               \/ r.kind = "inherit" /\ certs[id].issuer # 0
                            /\ HoldsNet(certs[id].issuer, net)
RECURSIVE HoldsAs(_, _)
HoldsAs(id, range) ==
    /\ certs[id].as_resources # None
    /\ LET as == certs[id].as_resources[1]
       IN  \/ as.inherit /\ certs[id].issuer # 0
                         /\ HoldsAs(certs[id].issuer, range)
           \/ \E r \in Range(as.ranges) : r.min <= range.min /\ range.max <= r.max

\* C3: every IP prefix and every AS range in a certificate lies within the
\* resources its issuer holds (inherit is always within them).
C3_ResourcesContained ==
    \A id \in AllCerts :
        certs[id].issuer # 0 =>
            /\ certs[id].ip_resources # None =>
                    \A r \in Range(certs[id].ip_resources[1]) :
                        r.kind = "inherit" \/ HoldsNet(certs[id].issuer, r)
            /\ certs[id].as_resources # None =>
                    \A r \in Range(certs[id].as_resources[1].ranges) :
                        HoldsAs(certs[id].issuer, r)

SiaUris(x, method) == {a.uri : a \in {b \in Range(x.sia) : b.method = method}}
FileHolds(path, type, id) ==
    /\ path \in DOMAIN files
    /\ files[path].type = type
    /\ files[path].id = id

\* C4: after a recursive publish of the TA, the AIA of every certificate but
\* the TA's names the file where its issuer wrote its own certificate, its
\* CRL distribution point names the file holding its issuer's latest CRL,
\* and its SIA names paths that were written: a CA's repository directory
\* and manifest, an EE's signed object.
C4_UrisResolve ==
    TAPublished =>
        \A id \in AllCerts :
            LET x == certs[id]
                p == x.issuer
            IN  p # 0 =>
                /\ UriFile(x.aia[1]) = uri_path(certs[p]) \o cert_path(certs, p)
                /\ FileHolds(UriFile(x.aia[1]), "cer", p)
                /\ certs[p].cn = x.issuer_cn
                /\ Optional(certs[p].ski) = x.aki
                /\ UriFile(x.crldp[1]) = uri_path(certs[p]) \o crl_path(certs, p)
                /\ FileHolds(UriFile(x.crldp[1]), "crl", p)
                /\ files[UriFile(x.crldp[1])].n = cas[p].next_crl_number - 1
                /\ IF x.ca
                   THEN /\ \A u \in SiaUris(x, "caRepository") : UriFile(u) \in dirs
                        /\ \A u \in SiaUris(x, "rpkiManifest") :
                                FileHolds(UriFile(u), "obj", cas[id].mft[1])
                   ELSE \A u \in SiaUris(x, "signedObject") :
                                UriFile(u) \in DOMAIN files
CertUris(x) ==
    Range(x.crldp) \cup Range(x.aia) \cup {a.uri : a \in Range(x.sia)}

\* C5: when the TA is constructed with base_uri U, every CRL distribution
\* point, AIA and SIA URI of every certificate of the hierarchy, and the URI
\* on line 1 of the TAL, begins with U.
C5_BaseUriUsed ==
    Len(certs) >= 1 =>
        LET U == certs[1].given_base_uri
        IN  /\ \A id \in AllCerts :
                    \A u \in CertUris(certs[id]) : UriStartsWith(u, U)
            /\ \A t \in Range(tal_file) : UriStartsWith(t.uri, U)

\* C6: in every ROA, an entry with a maxLength has
\* prefix length <= maxLength <= 32 (IPv4) or 128 (IPv6).
C6_MaxLengthValid ==
    \A id \in AllCerts :
        certs[id].ctype = "roa" =>
            \A f \in Range(certs[id].econtent.ipAddrBlocks) :
                \A e \in Range(f.addresses) :
                    \A m \in Range(e.maxLength) :
                        /\ Len(e.address) <= m
                        /\ m <= IF f.addressFamily = AFI(4) THEN 32 ELSE 128

RequestedSerials(ca) ==
    UNION {Range(crl_log[ca][k].to_revoke) : k \in 1..Len(crl_log[ca])}

\* C8: the revoked serial numbers in the latest CRL of a CA are the set
\* union of the serial numbers of all to_revoke arguments given to its
\* issue_crl so far, and no serial number is listed twice.
C8_RevokedIsUnion ==
    \A ca \in CAs :
        \A crl \in Range(cas[ca].crl) :
            /\ Range(crl.revoked) = RequestedSerials(ca)
            /\ \A i, j \in 1..Len(crl.revoked) :
                    crl.revoked[i] = crl.revoked[j] => i = j

\* C9: a CA always holds its own certificate and a CRL; its first CRL has
\* number 0 and is empty, its k-th CRL has number k-1, and next_crl_number
\* is the number of CRLs it has issued: only issuing a CRL changes it.
C9_CrlNumbers ==
    \A ca \in CAs :
        LET log == crl_log[ca]
        IN  /\ certs[ca].ca
            /\ Len(log) >= 1
            /\ log[1].crl.number = 0
            /\ log[1].crl.revoked = <<>>
            /\ \A k \in 1..Len(log) : log[k].crl.number = k - 1
            /\ cas[ca].crl = Optional(log[Len(log)].crl)
            /\ cas[ca].next_crl_number = Len(log)
C9_Witness ==
    \E ca \in CAs : Len(crl_log[ca]) >= 3 /\ cas[ca].next_crl_number = 3

\* The manifests a CA has issued; certificates are numbered as constructed.
Manifests(ca) ==
    {id \in AllCerts : certs[id].ctype = "mft" /\ certs[id].issuer = ca}

\* C10: the k-th manifest a CA issues has manifestNumber k-1, and
\* next_mft_number is the number of manifests it has issued.
C10_MftNumbers ==
    \A ca \in CAs :
        LET m == Manifests(ca)
        IN  /\ \A id \in m :
                    certs[id].econtent.manifestNumber
                        = Cardinality({j \in m : j < id})
            /\ cas[ca].next_mft_number = Cardinality(m)
            /\ \A id \in Range(cas[ca].mft) :
                    id \in m /\ \A j \in m : j <= id
C10_Witness ==
    \E ca \in CAs :
        /\ Cardinality(Manifests(ca)) >= 2
        /\ last.op = "publish" /\ last.ca = ca /\ last.ok
\* The events of one publish call, as positions of pub_log: the call that
\* begins at position i ends at FrameEnd(i); a CA is never published inside
\* its own publish, so the first "end" of the same CA is its end.
Begins == {i \in 1..Len(pub_log) : pub_log[i].ev = "begin"}
FrameEnd(i) ==
    LET ends == {j \in (i + 1)..Len(pub_log) :
                    pub_log[j].ev = "end" /\ pub_log[j].by = pub_log[i].by}
    IN  IF ends = {} THEN Len(pub_log) + 1
        ELSE CHOOSE j \in ends : \A k \in ends : j <= k
Frame(i) == (i + 1)..(FrameEnd(i) - 1)
Own(i, ev) ==
    {k \in Frame(i) : pub_log[k].by = pub_log[i].by /\ pub_log[k].ev = ev}
OfIssuees(i) == {k \in Frame(i) : pub_log[k].by # pub_log[i].by}
\* The certificates that existed when the publish at position i began: the
\* only certificates constructed during a publish are those of manifests.
IssuedDuring(i) == Cardinality({k \in 1..i : pub_log[k].ev = "issue_mft"})
ExistedAt(i) ==
    1..(Len(certs) - IssuedDuring(Len(pub_log)) + IssuedDuring(i))
IssueesAt(i) ==
    (Range(cas[pub_log[i].by].issued) \cap ExistedAt(i)) \ {pub_log[i].by}
\* Issuee x completed its own publish between positions i and m.
Completed(x, i, m) ==
    IF IsCA(certs, x)
    THEN \E b \in Begins :
            /\ pub_log[b].by = x
            /\ i < b /\ FrameEnd(b) < m
            /\ Own(b, "write_mft") # {}
    ELSE \E k \in (i + 1)..(m - 1) :
            pub_log[k].ev = "write_obj" /\ pub_log[k].by = x

\* C7: in a recursive publish of a CA P, P's manifest is issued and written
\* only after every issuee of P has completed its own publish (for a CA,
\* the write of its manifest included), and P's certificate and CRL are
\* written before anything of any issuee.
C7_PublishOrder ==
    (last.op = "publish" /\ last.recursive) =>
        \A i \in Begins :
            /\ \A k \in OfIssuees(i) :
                    /\ \E c \in Own(i, "write_cert") : c < k
                    /\ \E r \in Own(i, "write_crl") : r < k
            /\ \A m \in Own(i, "issue_mft") \cup Own(i, "write_mft") :
                    /\ \A k \in OfIssuees(i) : k < m
                    /\ \A x \in IssueesAt(i) : Completed(x, i, m)
            /\ \A w \in Own(i, "write_mft") :
                    \E m \in Own(i, "issue_mft") : m < w
C7_Witness ==
    /\ last.op = "publish" /\ last.recursive /\ last.ok
    /\ \E i, j \in Begins :
            /\ pub_log[j].by # pub_log[i].by
            /\ j \in Frame(i)
            /\ Own(j, "write_mft") # {}
            /\ Own(i, "write_mft") # {}
\* The resource extensions BaseResourceCertificate.__init__ adds.
IpResources(x) ==
    IF x.ip_resources = None THEN None
    ELSE Optional(IPAddrBlocks(x.ip_resources[1]))
AsResources(x) ==
    IF x.as_resources = None THEN None
    ELSE Optional(ASIdentifiers(x.as_resources[1]))

\* C11: every issued certificate carries the IP-resources or the
\* AS-resources extension, and an IP-resources extension that is there
\* holds at least one address family.
C11_ResourcesPresent ==
    \A id \in AllCerts :
        /\ IpResources(certs[id]) # None \/ AsResources(certs[id]) # None
        /\ \A e \in Range(IpResources(certs[id])) : e # <<>>
\* C12: the extensions of a certificate follow from its role: AKI, CRLDP
\* and AIA are there exactly when it has an issuer (all but the TA),
\* BasicConstraints(ca=true) exactly when it is a CA, KeyUsage is
\* keyCertSign|crlSign for a CA and digitalSignature for an EE, and SKI,
\* SIA and CertificatePolicies are always there.
C12_ExtensionsByRole ==
    \A id \in AllCerts :
        LET x == certs[id]
            has_issuer == x.issuer # 0
            is_ca == id \in CAs
        IN  /\ (x.aki # None) <=> has_issuer
            /\ (x.crldp # None) <=> has_issuer
            /\ (x.aia # None) <=> has_issuer
            /\ (x.basic_constraints # None) <=> is_ca
            /\ \A b \in Range(x.basic_constraints) : b.ca
            /\ x.key_usage.key_cert_sign <=> is_ca
            /\ x.key_usage.crl_sign <=> is_ca
            /\ x.key_usage.digital_signature <=> ~is_ca
            /\ x.ski = KeyIdentifier(x.key)
            /\ x.sia # <<>>
            /\ x.cps = CPS
C12_Witness ==
    \E t, c, e \in AllCerts :
        /\ IsTA(certs, t)
        /\ IsCA(certs, c) /\ certs[c].issuer = t
        /\ ~IsCA(certs, e) /\ certs[e].issuer = c

\* C15: the chain of signatures is consistent.  Every signed object embeds
\* its one EE certificate, is signed over its signedAttrs with that
\* certificate's key and names that certificate's SubjectKeyIdentifier as
\* sid; every certificate with an issuer is signed with the key of that
\* issuer, which is a CA; the TA certificate and every CRL are signed with
\* the CA's own key; no key belongs to two certificates and no EE key signs
\* two objects.
C15_SignatureChain ==
    /\ \A id \in AllCerts :
        LET x == certs[id]
        IN  /\ x.ski = KeyIdentifier(x.key)
            /\ x.issuer = 0 => x.signer = x.key
            /\ x.issuer # 0 =>
                    /\ IsCA(certs, x.issuer)
                    /\ x.signer = certs[x.issuer].key
            /\ ~x.ca =>
                    /\ x.certificates = <<id>>
                    /\ x.sid = Optional(x.ski)
                    /\ x.signature # None
                    /\ x.signature[1].key = x.key
                    /\ x.signature[1].message = signed_attrs(x.ctype, x.econtent)
            /\ \A o \in AllCerts :
                    /\ certs[o].key = x.key => o = id
                    /\ (certs[o].signature # None
                            /\ certs[o].signature[1].key = x.key) => o = id
    /\ \A ca \in CAs :
            /\ cas[ca].crl # None => cas[ca].crl[1].signer = certs[ca].key
            /\ \A i \in 1..Len(crl_log[ca]) :
                    crl_log[ca][i].crl.signer = certs[ca].key

C15_Witness ==
    /\ last.op = "publish" /\ last.ok
    /\ \E t, c, e \in AllCerts :
            /\ IsTA(certs, t)
            /\ IsCA(certs, c) /\ certs[c].issuer = t
            /\ ~IsCA(certs, e) /\ certs[e].issuer = c
            /\ certs[e].signature # None
            /\ \E p \in DOMAIN files : files[p] = object_bytes(e)
            /\ \E p \in DOMAIN files : files[p] = cert_bytes(c)
            /\ \E p \in DOMAIN files : files[p].type = "crl" /\ files[p].id = c

\* C16: the common name of a signed object's EE certificate is the digest of
\* its signedAttrs (contentType and messageDigest of the eContent), the file
\* name, when none was given, is that digest with the extension of the type,
\* and the signedObject URI of the certificate's SIA names every path at
\* which a publish has written the object.
C16_ObjectNames ==
    \A e \in AllCerts :
        ~IsCA(certs, e) =>
            LET x == certs[e]
                sa == SignedAttributes(x.ctype, digest(x.econtent))
            IN  /\ DOMAIN sa = {"contentType", "messageDigest"}
                /\ x.cn = [s |-> "", d |-> sa]
                /\ x.file_name = None =>
                        file_name(x) = [s |-> "", d |-> sa, ext |-> file_ext(x.ctype)]
                /\ \A p \in DOMAIN files :
                        files[p] = object_bytes(e) =>
                            \E u \in SiaUris(x, "signedObject") : UriFile(u) = p

\* The argument 192.168.1.128-192.168.2.255 has gone through.
C20_Input ==
    /\ rng.pc = "done"
    /\ rng.input_str = [lower |-> <<192, 168, 1, 128>>, upper |-> <<192, 168, 2, 255>>]
C20_Min ==
    <<1, 1, 0, 0, 0, 0, 0, 0,  1, 0, 1, 0, 1, 0, 0, 0,  0, 0, 0, 0, 0, 0, 0, 1,  1>>
RangeBlocks(max) ==
    <<[addressFamily |-> AFI(4),
       ipAddressChoice |->
            [choice |-> "addressesOrRanges",
             addressesOrRanges |->
                <<[choice |-> "addressRange", bits |-> C20_Min, max |-> max]>>]]>>

\* C20: for the range 192.168.1.128-192.168.2.255 the IPAddrBlocks
\* extension holds a single IPv4 addressRange whose min is the 25 bits
\* 11000000 10101000 00000001 1 and whose max is the 24 bits
\* 11000000 10101000 00000010 (the one-bits at the end truncated), and the
\* content_data of IPAddressRange on the parsed argument is the same.
C20_RangeEncoding ==
    C20_Input =>
        /\ rng.ext = RangeBlocks(<<1, 1, 0, 0, 0, 0, 0, 0,  1, 0, 1, 0, 1, 0, 0, 0,
                                   0, 0, 0, 0, 0, 0, 1, 0>>)
        /\ IPAddrBlocks(<<ip_resource(rng.input_str)>>) = rng.ext

\* C20 as stated: the max is the 23 bits 11000000 10101000 0000001.
C20_RangeEncoding_AsStated ==
    C20_Input =>
        rng.ext = RangeBlocks(<<1, 1, 0, 0, 0, 0, 0, 0,  1, 0, 1, 0, 1, 0, 0, 0,
                                0, 0, 0, 0, 0, 0, 1>>)

C20_Witness == C20_Input /\ Len(rng.ext) = 1

\* C17: conjure with the default arguments returns None, and main never
\* lets an exception escape: what is raised comes back as 1, a keyboard
\* interrupt as 2.
C17_ExitCodes ==
    /\ cli.pc # "escaped"
    /\ cli.pc = "returned" =>
            /\ cli.raised = "Exception" => cli.rc = Optional(1)
            /\ cli.raised = "KeyboardInterrupt" => cli.rc = Optional(2)
            /\ (cli.cmd = "conjure" /\ cli.writable /\ cli.raised = "") =>
                    cli.rc = None

\* C18: no two threads are between setting and resetting the value of the
\* same template at the same time, whatever their classes.
C18_TemplateExclusive ==
    \A t, u \in DOMAIN thr.at :
        (/\ thr.at[t].pc = "set"
         /\ thr.at[u].pc = "set"
         /\ content_syntax(thr.at[t].cls) = content_syntax(thr.at[u].cls))
            => t = u

\* The address a block entry begins at, as the bits of the family, and the
\* numerical order of two such addresses.
Pad(bits, n, fill) == bits \o [i \in 1..(n - Len(bits)) |-> fill]
BitsLess(a, b) ==
    \E k \in 1..Len(a) : a[k] < b[k] /\ \A m \in 1..(k - 1) : a[m] = b[m]
Ascending(family) ==
    LET es == family.ipAddressChoice.addressesOrRanges
        n == IF family.addressFamily = AFI(4) THEN max_prefixlen(4)
             ELSE max_prefixlen(6)
    IN  \A i, j \in 1..Len(es) :
            i < j => ~BitsLess(Pad(es[j].bits, n, 0), Pad(es[i].bits, n, 0))

\* C21: the entries of each address family of an IPAddrBlocks value are in
\* ascending numerical order, in whatever order they were given.
C21_EntriesAscending ==
    blk.pc = "done" => \A i \in 1..Len(blk.ext) : Ascending(blk.ext[i])

\* The entries of one family among the resources given, in the order given.
OfFamily(ip_resources, version) ==
    SelectSeq(ip_resources, LAMBDA e : e.version = version)
FamilyBlocks(ext, version) ==
    {i \in 1..Len(ext) : ext[i].addressFamily = AFI(version)}

\* C22: IPAddrBlocks holds at most one block per address family, IPv4
\* before IPv6, and none for a family without entries; a family has the
\* inherit choice exactly when one of its entries is the inherit marker,
\* and otherwise addressesOrRanges with every entry of the family.
C22_FamilyBlocks ==
    blk.pc = "done" =>
        /\ \A i, j \in 1..Len(blk.ext) :
                i < j => /\ blk.ext[i].addressFamily = AFI(4)
                         /\ blk.ext[j].addressFamily = AFI(6)
        /\ \A version \in {4, 6} :
            LET given == OfFamily(blk.ip_resources, version)
                at == FamilyBlocks(blk.ext, version)
            IN  /\ Cardinality(at) = IF given = <<>> THEN 0 ELSE 1
                /\ \A i \in at :
                    LET c == blk.ext[i].ipAddressChoice
                    IN  IF \E k \in 1..Len(given) : given[k].kind = "inherit"
                        THEN c.choice = "inherit" /\ c.addressesOrRanges = <<>>
                        ELSE /\ c.choice = "addressesOrRanges"
                             /\ Len(c.addressesOrRanges) = Len(given)
                             /\ \A k \in 1..Len(given) :
                                    /\ c.addressesOrRanges[k].bits =
                                            IF given[k].kind = "net"
                                            THEN given[k].bits
                                            ELSE IPAddressRange(given[k]).min
                                    /\ c.addressesOrRanges[k].choice =
                                            IF given[k].kind = "net"
                                            THEN "addressPrefix"
                                            ELSE "addressRange"

\* Resources with a network and the inherit marker of one family and a
\* network of the other have gone through.
C22_Witness ==
    /\ blk.pc = "done"
    /\ \E i, j, k \in 1..Len(blk.ip_resources) :
            /\ blk.ip_resources[i] = INHERIT_IPV4
            /\ blk.ip_resources[j].kind = "net" /\ blk.ip_resources[j].version = 4
            /\ blk.ip_resources[k].kind = "net" /\ blk.ip_resources[k].version = 6
    /\ Len(blk.ext) = 2

NETWORKS == {Net10, Net10_1, Net192, Net6, Net2001_db8, Net(4, <<>>)}

\* C23: the min of a range is its low address without its trailing
\* zero-bits and the max its high address without its trailing one-bits,
\* both of a length in 0..max_prefixlen, so that padding them gives back the
\* two addresses; the bit string of a network is its address shifted right
\* by the host bits, of prefixlen bits, and bitstring_to_net inverts it.
C23_TrimAndPad ==
    /\ rng.pc \in {"low", "high", "done"} =>
            /\ rng.low_len \in 0..max_prefixlen(rng.version)
            /\ rng.high_len \in 0..max_prefixlen(rng.version)
    /\ rng.pc = "done" =>
            LET r == ip_resource(rng.input_str)
                data == rng.ext[1].ipAddressChoice.addressesOrRanges[1]
                n == max_prefixlen(rng.version)
            IN  /\ Pad(data.bits, n, 0) = r.bits
                /\ Pad(data.max, n, 1) = r.high
                /\ data.bits # <<>> => data.bits[Len(data.bits)] = 1
                /\ data.max # <<>> => data.max[Len(data.max)] = 0
    /\ \A net \in NETWORKS :
            /\ Len(net_to_bitstring(net)) = prefixlen(net)
            /\ Pad(net_to_bitstring(net), max_prefixlen(net.version), 0)
                    = network_address(net)
            /\ bitstring_to_net(net_to_bitstring(net), net.version) = net

\* C25: the two loops of IPAddressRange stop after at most max_prefixlen
\* turns: a loop that is about to take another turn has taken fewer.
C25_LoopsBounded ==
    /\ (rng.pc = "low" /\ mod2(rng.low_bits) = 0) =>
            max_prefixlen(rng.version) - rng.low_len < max_prefixlen(rng.version)
    /\ (rng.pc = "high" /\ mod2(rng.high_bits) = 1) =>
            max_prefixlen(rng.version) - rng.high_len < max_prefixlen(rng.version)

\* The places of certificate id in the issued list of CA ca.
IssuedAt(ca, id) == {i \in 1..Len(cas[ca].issued) : cas[ca].issued[i] = id}
IssuedOnce ==
    \A id \in AllCerts :
        LET by == IF certs[id].issuer = 0 THEN id ELSE certs[id].issuer
        IN  /\ \A ca \in CAs :
                    Cardinality(IssuedAt(ca, id)) = IF ca = by THEN 1 ELSE 0
            /\ IsTA(certs, id) => cas[id].issued[1] = id
IssuedGrows ==
    \A ca \in CAs : IsPrefix(cas[ca].issued, cas'[ca].issued)

\* C24: every certificate is once in the issued list of its issuer (the TA
\* first in its own) and in no other, so that every entry but a TA's own
\* has the CA of the list as its issuer, and an issued list only ever grows
\* at its end.
C24_IssuedLists == []IssuedOnce /\ [][IssuedGrows]_vars

\* The threads inside a with block on a lock, and those whose value a
\* template may hold.
InSection(t) == thr.at[t].pc \in {"locked", "set", "raised", "reset"}

\* C26: once an encoding or decoding has returned or raised, the template
\* of its class holds no value of it and the lock of its class is free: a
\* value in a template is that of a thread that is between setting and
\* resetting it, a lock that is taken is that of a thread within its with
\* block.
C26_ResetAndReleased ==
    /\ \A e \in thr.set :
            /\ e[2] \in DOMAIN thr.at
            /\ thr.at[e[2]].pc \in {"set", "raised"}
            /\ content_syntax(thr.at[e[2]].cls) = e[1]
    /\ \A l \in thr.locks :
            InSection(l[2]) /\ lock(thr.at[l[2]].cls) = l[1]

\* The locks thread t has.
Held(t) == {l[1] : l \in {m \in thr.locks : m[2] = t}}
\* Thread t, within a call, has a step to take.
CanStep(t) ==
    ENABLED (Acquire(t) \/ SetVal(t) \/ ResetVal(t) \/ Release(t))

\* C27: no thread has two locks at once and no thread waits for a lock
\* while it has one, the lock it waits for included: the sections of a call
\* follow each other, none is inside another.  So the thread that has the
\* lock another waits for is never one that waits, and as long as some
\* thread is within a call one of them has a step to take.
C27_OneLockAtATime ==
    /\ \A t \in DOMAIN thr.at :
            /\ Cardinality(Held(t)) <= 1
            /\ thr.at[t].pc = "acquire" => Held(t) = {}
            /\ thr.at[t].pc = "idle" => Held(t) = {}
    /\ \A t, u \in DOMAIN thr.at :
            (thr.at[t].pc = "acquire" /\ lock(thr.at[t].cls) \in Held(u))
                => InSection(u) /\ CanStep(u)
    /\ (\E t \in DOMAIN thr.at : thr.at[t].pc # "idle")
            => \E t \in DOMAIN thr.at : thr.at[t].pc # "idle" /\ CanStep(t)
\* A thread is in the second section of from_der, Interface.__init__, with
\* the lock of the class and no other, and another thread waits for it.
C27_Witness ==
    \E t, u \in DOMAIN thr.at :
        /\ thr.at[t].call = "__init__"
        /\ thr.at[t].pc = "set"
        /\ Held(t) = {lock(thr.at[t].cls)}
        /\ thr.at[u].pc = "acquire"
        /\ thr.at[u].call = "from_der"
        /\ thr.at[u].cls = thr.at[t].cls

\* C28: after issue_cert or issue_crl has raised, the counters, the issued
\* list and the last CRL of the CA are what they were when it was called.
C28_RaiseLeavesCA ==
    (last.op = "raise" /\ err.call \in {"issue_cert", "issue_crl"})
        => cas[err.ca] = err.before
\* issue_cert has raised for a CA that had issued two certificates and a
\* CRL by then.
C28_Witness ==
    /\ last.op = "raise"
    /\ err.call = "issue_cert"
    /\ Len(err.before.issued) = 2
    /\ err.before.crl # None
    /\ cas[err.ca] = err.before

\* A publish of the CA whose call raised that would have succeeded when the
\* call was made.
PublishedBefore ==
    ~CertificateAuthority_publish(err.state, err.ca, last.recursive).failed

\* C29: after the construction of a signed object, the manifest of issue_mft
\* included, has raised at whatever statement, the issued list and the
\* counters of the issuing CA are what they were, and a publish of that CA
\* made afterwards succeeds as it would have before.
C29_FailedObjectLeavesCA ==
    err.call \in {"SignedObject", "issue_mft"} =>
        /\ last.op = "raise" => cas[err.ca] = err.before
        /\ (last.op = "publish" /\ last.ca = err.ca /\ PublishedBefore)
                => last.ok

\* The certificates other than itself that CA ca has issued, each of which
\* puts one artifact into the publication point of ca.
Issuees(ca) == {cas[ca].issued[i] : i \in 1..Len(cas[ca].issued)} \ {ca}

\* C30: the artifacts of distinct certificates a CA has issued have distinct
\* file names in its publication point, none of them that of its CRL or of
\* its manifest unless it is a manifest of the CA.
C30_DistinctFileNames ==
    \A ca \in CAs :
        /\ \A a, b \in Issuees(ca) :
                a # b => mft_entry(Cur, a).name # mft_entry(Cur, b).name
        /\ \A a \in Issuees(ca) :
                /\ mft_entry(Cur, a).name # basename(crl_path(certs, ca))
                /\ certs[a].ctype # "mft"
                        => mft_entry(Cur, a).name # basename(mft_path(certs, ca))

====
